---- MODULE Spec2Model ----
(***************************************************************************)
(* Model of vector.h: RawMemory<T> (an owner of raw, uninitialized slots)  *)
(* and Vector<T> (element lifetime, growth, relocation) on top of it.      *)
(*                                                                         *)
(* The heap is a set of buffers; every slot is either Uninit or holds a    *)
(* value.  Every operation of Vector is one action; the body of the        *)
(* operation is an operator over a context c that is threaded through the  *)
(* statements in program order:                                            *)
(*   c.h    the heap                                                       *)
(*   c.me   the Vector the operation runs on (data_.buffer_,               *)
(*          data_.capacity_, size_)                                        *)
(*   c.k    which fallible step of the call throws (0: none)               *)
(*   c.ex   an exception is propagating                                    *)
(*   c.r    the value returned by the last statement                       *)
(*   c.dn   number of element destructors run so far in the call           *)
(*   c.err  lifetime violations met so far (construct over a live slot,    *)
(*          destroy/read of an uninitialized slot, release of a buffer     *)
(*          that is not allocated or still holds live elements)            *)
(* A statement met while c.ex holds is skipped, as in stack unwinding;     *)
(* catch blocks and destructors of locals are written out explicitly.      *)
(* A function body is a chain of operators, one per stretch of statements, *)
(* each taking the context the stretch before it has produced.             *)
(***************************************************************************)
EXTENDS Integers, Sequences, FiniteSets, TLC

\* ---------------------------------------------------------------- bounds
MaxCap == 4
MaxVal == 2
NumBufs == 3

\* ------------------------------------------------------------ the element
Uninit == -1
Default == 0

Val == 1..MaxVal
Elem == 0..MaxVal
Bufs == 1..NumBufs
Vectors == {"a", "b"}

\* Element types the template is instantiated with.
\*   nothrowMove  std::is_nothrow_move_constructible_v<T> (and the move
\*                assignment does not throw either)
\*   copyable     std::is_copy_constructible_v<T>
\*   movedFrom    a move leaves its source in the moved-from state (Default),
\*                FALSE: a move leaves the source as it was (as for int)
Types ==
    { [name |-> "Plain",     nothrowMove |-> TRUE,  copyable |-> TRUE,  movedFrom |-> FALSE],
      [name |-> "String",    nothrowMove |-> TRUE,  copyable |-> TRUE,  movedFrom |-> TRUE],
      [name |-> "ThrowMove", nothrowMove |-> FALSE, copyable |-> TRUE,  movedFrom |-> TRUE],
      [name |-> "MoveOnly",  nothrowMove |-> FALSE, copyable |-> FALSE, movedFrom |-> TRUE] }

VARIABLES T, heap, vec, last, log, err

vars == <<T, heap, vec, last, log, err>>

\* Mutant of RelocateByMove: every type is relocated by move.
RelocateAlwaysByMove(t) == TRUE

\* The condition of every "if constexpr" of the relocation rule.
RelocateByMove(t) == t.nothrowMove \/ ~t.copyable

\* ------------------------------------------------------------- the heap
FreeBuf == [st |-> "free", slots |-> <<>>]

Min(S) == CHOOSE x \in S : \A y \in S : x <= y

FreeBufs(h) == {b \in Bufs : h[b].st = "free"}

Valid(h, b, i) == b \in Bufs /\ h[b].st = "live" /\ i \in DOMAIN h[b].slots

Slot(h, b, i) == IF Valid(h, b, i) THEN h[b].slots[i] ELSE Uninit

\* The value read from slot i of buffer b.
Value(h, b, i) == IF Slot(h, b, i) = Uninit THEN Default ELSE Slot(h, b, i)

Write(h, b, i, x) == IF Valid(h, b, i) THEN [h EXCEPT ![b].slots[i] = x] ELSE h

Release(h, b) == IF b \in Bufs THEN [h EXCEPT ![b] = FreeBuf] ELSE h

\* What is wrong with constructing into, using (reading, assigning to,
\* destroying) or releasing.
OnConstruct(h, b, i) ==
    (IF Valid(h, b, i) THEN {} ELSE {"out of bounds"})
        \cup (IF Slot(h, b, i) # Uninit THEN {"constructed over a live element"} ELSE {})

OnUse(h, b, i, what) == IF Slot(h, b, i) = Uninit THEN {what} ELSE {}

OnRelease(h, b) ==
    IF b \notin Bufs \/ h[b].st # "live" THEN {"double free"}
    ELSE IF \E i \in DOMAIN h[b].slots : h[b].slots[i] # Uninit
         THEN {"released with live elements"}
         ELSE {}

\* One fallible step: it throws when it is the c.k-th of the call.
Tick(c) ==
    IF c.ex \/ c.k = 0 THEN c
    ELSE IF c.k = 1 THEN [c EXCEPT !.ex = TRUE, !.k = 0]
    ELSE [c EXCEPT !.k = @ - 1]

MayThrow(c, fallible) == IF fallible THEN Tick(c) ELSE c

Caught(c) == [c EXCEPT !.ex = FALSE]
Rethrow(c) == [c EXCEPT !.ex = TRUE]

\* operator new has returned, or thrown std::bad_alloc.
Allocated(t, n) ==
    IF t.ex THEN t
    ELSE IF FreeBufs(t.h) = {} THEN Rethrow(t)
    ELSE [t EXCEPT !.h[Min(FreeBufs(t.h))] =
                        [st |-> "live", slots |-> [i \in 0..(n - 1) |-> Uninit]],
                   !.r = Min(FreeBufs(t.h))]

\* RawMemory::Allocate: operator new, or nullptr (0) for n = 0.
Allocate(c, n) ==
    IF c.ex THEN c
    ELSE IF n = 0 THEN [c EXCEPT !.r = 0]
    ELSE Allocated(Tick(c), n)

\* RawMemory::Deallocate: operator delete; delete of nullptr does nothing.
Deallocate(c, b) ==
    IF c.ex \/ b = 0 THEN c
    ELSE [c EXCEPT !.h = Release(@, b), !.err = @ \cup OnRelease(c.h, b)]

\* The element operation that gives slot i of buffer b the value x: a
\* constructor call (the slot must be uninitialized) or an assignment (the
\* slot must hold an element).
Store(t, b, i, x, how) ==
    IF t.ex THEN t
    ELSE [t EXCEPT !.h = Write(@, b, i, x),
                   !.err = @ \cup IF how = "construct" THEN OnConstruct(t.h, b, i)
                                  ELSE OnUse(t.h, b, i, "assigned to an uninitialized slot")]

\* The element in slot i of buffer b is read.
Read(t, b, i) ==
    IF t.ex THEN t
    ELSE [t EXCEPT !.err = @ \cup OnUse(t.h, b, i, "read an uninitialized slot")]

\* The source of a move after the move.
Vacate(t, b, i) ==
    IF t.ex \/ ~T.movedFrom THEN t
    ELSE [t EXCEPT !.h = Write(@, b, i, Default)]

\* new (b + i) T(x): a constructor call, which may throw.
ConstructAt(c, b, i, x) ==
    IF c.ex THEN c ELSE Store(Tick(c), b, i, x, "construct")

\* std::destroy_at(b + i); destructors do not throw.
DestroyAt(c, b, i) ==
    IF c.ex THEN c
    ELSE [c EXCEPT !.h = Write(@, b, i, Uninit),
                   !.err = @ \cup OnUse(c.h, b, i, "destroyed an uninitialized slot"),
                   !.dn = @ + 1]

\* new (db + di) T(std::move(sb[si])): throws only if T's move may throw, and
\* then before the source is touched.
MoveConstruct(c, sb, si, db, di) ==
    IF c.ex THEN c
    ELSE Vacate(Store(Read(MayThrow(c, ~T.nothrowMove), sb, si),
                      db, di, Value(c.h, sb, si), "construct"), sb, si)

\* new (db + di) T(sb[si]): the copy constructor, which may throw.
CopyConstruct(c, sb, si, db, di) ==
    IF c.ex THEN c
    ELSE Store(Read(Tick(c), sb, si), db, di, Value(c.h, sb, si), "construct")

\* db[di] = std::move(sb[si]): both slots must hold live elements.
MoveAssign(c, sb, si, db, di) ==
    IF c.ex THEN c
    ELSE Vacate(Store(Read(MayThrow(c, ~T.nothrowMove), sb, si),
                      db, di, Value(c.h, sb, si), "assign"), sb, si)

\* db[di] = sb[si]: copy assignment, which may throw.
CopyAssign(c, sb, si, db, di) ==
    IF c.ex THEN c
    ELSE Store(Read(Tick(c), sb, si), db, di, Value(c.h, sb, si), "assign")

\* db[di] = std::move(temp) for a local temp holding x.
MoveAssignValue(c, x, db, di) ==
    IF c.ex THEN c
    ELSE Store(MayThrow(c, ~T.nothrowMove), db, di, x, "assign")

\* An argument of EmplaceBack or Emplace is a value, or a reference to the
\* element at an index of the Vector the call runs on (v.EmplaceBack(v[i])),
\* which is an address in the buffer the Vector has when it is called.
Ref(index) == -(index + 2)
IsRef(x) == x < Uninit

\* std::forward<Args>(args)... as the constructor of T reads it, in context c.
Arg(c, x) == IF IsRef(x) THEN Value(c.h, c.me.data, -x - 2) ELSE x

\* ------------------------------------------------ <memory> and <algorithm>
RECURSIVE destroy_n(_, _, _, _)
destroy_n(c, b, first, n) ==
    IF c.ex \/ n = 0 THEN c
    ELSE destroy_n(DestroyAt(c, b, first), b, first + 1, n - 1)

\* Element j of an uninitialized_* algorithm.
UninitOne(c, kind, sb, si, db, di) ==
    IF kind = "copy" THEN CopyConstruct(c, sb, si, db, di)
    ELSE IF kind = "move" THEN MoveConstruct(c, sb, si, db, di)
    ELSE ConstructAt(c, db, di, Default)

\* The loop of the uninitialized_* algorithms: on a throw at element j the j
\* elements already constructed in the destination are destroyed.
RECURSIVE UninitLoop(_, _, _, _, _, _, _, _)
RECURSIVE UninitNext(_, _, _, _, _, _, _, _)
\* Mutant of UninitNext: a throw leaves what was constructed.
UninitNextNoCleanup(s, kind, sb, sfirst, n, db, dfirst, j) ==
    IF s.ex THEN s ELSE UninitLoop(s, kind, sb, sfirst, n, db, dfirst, j + 1)

UninitNext(s, kind, sb, sfirst, n, db, dfirst, j) ==
    IF s.ex THEN Rethrow(destroy_n(Caught(s), db, dfirst, j))
    ELSE UninitLoop(s, kind, sb, sfirst, n, db, dfirst, j + 1)

UninitLoop(c, kind, sb, sfirst, n, db, dfirst, j) ==
    IF c.ex \/ j >= n THEN c
    ELSE UninitNext(UninitOne(c, kind, sb, sfirst + j, db, dfirst + j),
                    kind, sb, sfirst, n, db, dfirst, j)

uninitialized_copy_n(c, sb, sfirst, n, db, dfirst) ==
    UninitLoop(c, "copy", sb, sfirst, n, db, dfirst, 0)

uninitialized_move_n(c, sb, sfirst, n, db, dfirst) ==
    UninitLoop(c, "move", sb, sfirst, n, db, dfirst, 0)

uninitialized_value_construct_n(c, db, dfirst, n) ==
    UninitLoop(c, "value", 0, 0, n, db, dfirst, 0)

\* Mutant of std_move: the shift is left out.
std_move_nothing(c, b, first, lst, d_first) == c

\* std::move(first, last, d_first) within one buffer, front to back.
RECURSIVE std_move(_, _, _, _, _)
std_move(c, b, first, lst, d_first) ==
    IF c.ex \/ first >= lst THEN c
    ELSE std_move(MoveAssign(c, b, first, b, d_first), b, first + 1, lst, d_first + 1)

\* std::move_backward(first, last, d_last) within one buffer, back to front.
RECURSIVE move_backward(_, _, _, _, _)
move_backward(c, b, first, lst, d_last) ==
    IF c.ex \/ first >= lst THEN c
    ELSE move_backward(MoveAssign(c, b, lst - 1, b, d_last - 1), b, first, lst - 1, d_last - 1)

\* std::copy(first, last, d_first) from buffer sb to buffer db.
RECURSIVE std_copy(_, _, _, _, _, _)
std_copy(c, sb, first, lst, db, d_first) ==
    IF c.ex \/ first >= lst THEN c
    ELSE std_copy(CopyAssign(c, sb, first, db, d_first), sb, first + 1, lst, db, d_first + 1)

\* ------------------------------------------------------------------ Vector
\* The condition of "if (size_ == Capacity())" in EmplaceBack and Emplace.
MustGrow(me) == me.size = me.cap

\* Mutant of GrownCapacity: room for one more element only.
GrownByOne(size) == size + 1

\* const size_t new_capacity = size_ == 0 ? 1 : size_ * 2;
GrownCapacity(size) == IF size = 0 THEN 1 ELSE size * 2

\* Mutant of Relocate: the last element of the range is not relocated.
RelocateAllButLast(c, sb, sfirst, n, db, dfirst) ==
    IF RelocateByMove(T) THEN uninitialized_move_n(c, sb, sfirst, n - 1, db, dfirst)
    ELSE uninitialized_copy_n(c, sb, sfirst, n - 1, db, dfirst)

\* The relocation rule: uninitialized_move_n or uninitialized_copy_n.
Relocate(c, sb, sfirst, n, db, dfirst) ==
    IF RelocateByMove(T) THEN uninitialized_move_n(c, sb, sfirst, n, db, dfirst)
    ELSE uninitialized_copy_n(c, sb, sfirst, n, db, dfirst)

\* data_.Swap(new_data)
Adopted(d, nd, new_capacity) == [d EXCEPT !.me.data = nd, !.me.cap = new_capacity]

\* destroy_n(data_, size_); data_.Swap(new_data); and, at the end of the
\* scope, ~RawMemory of new_data, which then owns the old buffer.
AdoptNewData(c, nd, new_capacity) ==
    Deallocate(Adopted(destroy_n(c, c.me.data, 0, c.me.size), nd, new_capacity), c.me.data)

\* Mutant of GrowCatch: the new buffer is released with what was placed in it.
GrowCatchWithoutDestroy(c, nd, first, n) == Rethrow(Deallocate(Caught(c), nd))

\* catch (...) { std::destroy_at(new_data + size_); throw; } and ~RawMemory.
GrowCatch(c, nd, first, n) == Rethrow(Deallocate(destroy_n(Caught(c), nd, first, n), nd))

\* catch (...) { throw; } and ~RawMemory of new_data.
PlaceCatch(c, nd) == Rethrow(Deallocate(Caught(c), nd))

\* ++size_
Grown(d) == [d EXCEPT !.me.size = @ + 1]

\* ++size_; return data_[size_ - 1];
Appended(n) == IF n.ex THEN n ELSE [Grown(n) EXCEPT !.r = n.me.size]

\* EmplaceBack, size_ == Capacity(), after the relocation.
EmplaceBackRelocated(c, nd, n2) ==
    IF n2.ex THEN GrowCatch(n2, nd, c.me.size, 1)
    ELSE Appended(AdoptNewData(n2, nd, GrownCapacity(c.me.size)))

\* EmplaceBack, size_ == Capacity(), after the new element is constructed.
EmplaceBackPlaced(c, nd, n1) ==
    IF n1.ex THEN PlaceCatch(n1, nd)
    ELSE EmplaceBackRelocated(c, nd, Relocate(n1, c.me.data, 0, c.me.size, nd, 0))

\* Mutant of EmplaceBackGrow: the elements are relocated before the new
\* element is constructed.
EmplaceBackGrowRelocateFirst(c, x, a) ==
    IF a.ex THEN a
    ELSE LET moved == Relocate(a, c.me.data, 0, c.me.size, a.r, 0)
         IN EmplaceBackRelocated(c, a.r, ConstructAt(moved, a.r, c.me.size, Arg(moved, x)))

\* EmplaceBack, size_ == Capacity(), after RawMemory<T> new_data(new_capacity).
EmplaceBackGrow(c, x, a) ==
    IF a.ex THEN a
    ELSE EmplaceBackPlaced(c, a.r, ConstructAt(a, a.r, c.me.size, Arg(a, x)))

EmplaceBack(c, x) ==
    IF MustGrow(c.me) THEN EmplaceBackGrow(c, x, Allocate(c, GrownCapacity(c.me.size)))
    ELSE Appended(ConstructAt(c, c.me.data, c.me.size, Arg(c, x)))

\* PushBack(const T&) and PushBack(T&&) forward to EmplaceBack.
PushBack(c, x) == EmplaceBack(c, x)

\* return begin() + offset;
Returned(e, offset) == IF e.ex THEN e ELSE [e EXCEPT !.r = offset]

\* Mutant of ShiftCatch: the exception passes through.
ShiftCatchNothing(c) == Rethrow(c)

\* catch (...) { std::destroy_at(data_ + size_ - 1); --size_; throw; }
ShiftCatch(c) ==
    Rethrow([DestroyAt(Caught(c), c.me.data, c.me.size - 1) EXCEPT !.me.size = @ - 1])

\* std::move_backward(begin() + offset, end() - 1, end()), size_ already
\* incremented.
ShiftRight(c, offset) ==
    move_backward(c, c.me.data, offset, c.me.size - 1, c.me.size)

\* Mutant of EmplaceSuffix: size_ is not incremented.
EmplaceSuffixSameSize(c, offset, nd, n3) ==
    IF n3.ex THEN GrowCatch(n3, nd, 0, offset + 1)
    ELSE Returned(AdoptNewData(n3, nd, GrownCapacity(c.me.size)), offset)

\* Emplace, size_ == Capacity(), after the suffix is relocated.
EmplaceSuffix(c, offset, nd, n3) ==
    IF n3.ex THEN GrowCatch(n3, nd, 0, offset + 1)
    ELSE Returned(Grown(AdoptNewData(n3, nd, GrownCapacity(c.me.size))), offset)

\* Emplace, size_ == Capacity(), after the prefix is relocated.
EmplacePrefix(c, offset, nd, n2) ==
    IF n2.ex THEN GrowCatch(n2, nd, offset, 1)
    ELSE EmplaceSuffix(c, offset, nd,
            IF c.me.size > offset
            THEN Relocate(n2, c.me.data, offset, c.me.size - offset, nd, offset + 1)
            ELSE n2)

\* Emplace, size_ == Capacity(), after the new element is constructed.
EmplacePlaced(c, offset, nd, n1) ==
    IF n1.ex THEN PlaceCatch(n1, nd)
    ELSE EmplacePrefix(c, offset, nd,
            IF offset > 0 THEN Relocate(n1, c.me.data, 0, offset, nd, 0) ELSE n1)

\* Emplace, size_ == Capacity(), after RawMemory<T> new_data(new_capacity).
EmplaceGrow(c, offset, x, a) ==
    IF a.ex THEN a
    ELSE EmplacePlaced(c, offset, a.r, ConstructAt(a, a.r, offset, Arg(a, x)))

\* Emplace, capacity left, after the shift and data_[offset] = std::move(temp).
EmplaceShifted(offset, asg) ==
    IF asg.ex THEN ShiftCatch(asg) ELSE Returned(asg, offset)

\* Emplace, capacity left, after new (end()) T(std::move(*(end() - 1))).
EmplaceShift(c, offset, x, m1) ==
    IF m1.ex THEN m1
    ELSE EmplaceShifted(offset,
            MoveAssignValue(ShiftRight(Grown(m1), offset), Arg(c, x), c.me.data, offset))

\* T temp(std::forward<Args>(args)...): a constructor call, which may throw.
Scratch(c) == Tick(c)

Emplace(c, offset, x) ==
    IF MustGrow(c.me)
    THEN EmplaceGrow(c, offset, x, Allocate(c, GrownCapacity(c.me.size)))
    ELSE IF offset = c.me.size THEN Returned(EmplaceBack(c, x), offset)
    ELSE EmplaceShift(c, offset, x,
            MoveConstruct(Scratch(c), c.me.data, c.me.size - 1, c.me.data, c.me.size))

\* Insert(const T&) and Insert(T&&) forward to Emplace.
Insert(c, offset, x) == Emplace(c, offset, x)

\* Mutant of PopBack: the last element is not destroyed.
PopBackWithoutDestroy(c) == [c EXCEPT !.me.size = @ - 1]

\* void PopBack() noexcept
PopBack(c) ==
    [DestroyAt(c, c.me.data, c.me.size - 1) EXCEPT !.me.size = @ - 1]

\* PopBack(); return begin() + offset;
Erased(m, offset) == IF m.ex THEN m ELSE Returned(PopBack(m), offset)

Erase(c, offset) ==
    Erased(std_move(c, c.me.data, offset + 1, c.me.size, offset), offset)

\* Mutant of ReserveIsNoop: a request for the current capacity reallocates.
ReserveIsNoopBelow(me, new_capacity) == new_capacity < me.cap

\* if (new_capacity <= data_.Capacity()) return;
ReserveIsNoop(me, new_capacity) == new_capacity <= me.cap

\* Reserve after the relocation; a throw runs ~RawMemory of new_data.
ReserveRelocated(new_capacity, nd, r1) ==
    IF r1.ex THEN PlaceCatch(r1, nd) ELSE AdoptNewData(r1, nd, new_capacity)

\* Reserve after RawMemory<T> new_data(new_capacity).
ReserveGrow(c, new_capacity, a) ==
    IF a.ex THEN a
    ELSE ReserveRelocated(new_capacity, a.r,
            IF c.me.size > 0 THEN Relocate(a, c.me.data, 0, c.me.size, a.r, 0) ELSE a)

Reserve(c, new_capacity) ==
    IF c.ex \/ ReserveIsNoop(c.me, new_capacity) THEN c
    ELSE ReserveGrow(c, new_capacity, Allocate(c, new_capacity))

\* size_ = new_size;
Resized(v, new_size) == IF v.ex THEN v ELSE [v EXCEPT !.me.size = new_size]

\* Mutant of ResizeFill: the new elements are not constructed.
ResizeFillNothing(r, new_size) == r

\* std::uninitialized_value_construct_n(data_ + size_, new_size - size_)
ResizeFill(r, new_size) ==
    uninitialized_value_construct_n(r, r.me.data, r.me.size, new_size - r.me.size)

Resize(c, new_size) ==
    IF new_size < c.me.size
    THEN Resized(destroy_n(c, c.me.data, new_size, c.me.size - new_size), new_size)
    ELSE IF new_size > c.me.size
    THEN Resized(ResizeFill(Reserve(c, new_size), new_size), new_size)
    ELSE c

\* T& operator[](size_t index), and the assignment of x to the element.
AssignElement(c, index, x) == Store(c, c.me.data, index, x, "assign")

\* Constructors leave the new Vector in c.r; c.me is not touched.
EmptyVector == [data |-> 0, cap |-> 0, size |-> 0]

\* The end of a constructor: on a throw the member data_ is destroyed.
VectorBuilt(nd, size, v) ==
    IF v.ex THEN PlaceCatch(v, nd)
    ELSE [v EXCEPT !.r = [data |-> nd, cap |-> size, size |-> size]]

\* Vector(size_t) after data_(size).
VectorFill(a, size) ==
    IF a.ex THEN a
    ELSE VectorBuilt(a.r, size,
            IF size > 0 THEN uninitialized_value_construct_n(a, a.r, 0, size) ELSE a)

\* explicit Vector(size_t size)
VectorSized(c, size) == VectorFill(Allocate(c, size), size)

\* Vector(const Vector&) after data_(other.size_).
VectorCopied(a, other) ==
    IF a.ex THEN a
    ELSE VectorBuilt(a.r, other.size,
            IF other.size > 0
            THEN uninitialized_copy_n(a, other.data, 0, other.size, a.r, 0)
            ELSE a)

\* Mutant of VectorCopy: the copy takes the buffer of the source.
VectorCopyShallow(c, other) ==
    [c EXCEPT !.r = [data |-> other.data, cap |-> other.size, size |-> other.size]]

\* Vector(const Vector& other)
VectorCopy(c, other) == VectorCopied(Allocate(c, other.size), other)

\* ~Vector() followed by ~RawMemory() of data_, for the Vector w.
DestroyVector(c, w) == Deallocate(destroy_n(c, w.data, 0, w.size), w.data)

\* Mutant of AssignTail: only the common prefix is assigned.
AssignTailNothing(c1, me, other) == c1

\* The second half of AssignFrom.
AssignTail(c1, me, other) ==
    IF other.size > me.size
    THEN uninitialized_copy_n(c1, other.data, me.size, other.size - me.size,
                              me.data, me.size)
    ELSE IF other.size < me.size
    THEN destroy_n(c1, me.data, other.size, me.size - other.size)
    ELSE c1

AssignFrom(c, other) ==
    Resized(AssignTail(std_copy(c, other.data, 0,
                                IF other.size < c.me.size THEN other.size ELSE c.me.size,
                                c.me.data, 0),
                       c.me, other),
            other.size)

\* Swap(rhs_copy); and ~Vector of rhs_copy, which then holds the old state.
AssignSwap(old, cp) ==
    IF cp.ex THEN cp ELSE DestroyVector([cp EXCEPT !.me = cp.r], old)

\* Mutant of CopyAssignment: the copy is always made and swapped in.
CopyAssignmentAlwaysSwap(c, rhs, same) ==
    IF same THEN c ELSE AssignSwap(c.me, VectorCopy(c, rhs))

\* Mutant of CopyAssignment: the old elements and buffer are given up before
\* the copy is made.
CopyAssignmentDestroyFirst(c, rhs, same) ==
    IF same THEN c
    ELSE IF rhs.size > c.me.cap
    THEN AssignSwap(EmptyVector,
                    VectorCopy([DestroyVector(c, c.me) EXCEPT !.me = EmptyVector], rhs))
    ELSE AssignFrom(c, rhs)

\* Vector& operator=(const Vector& rhs); same: this == &rhs.
CopyAssignment(c, rhs, same) ==
    IF same THEN c
    ELSE IF rhs.size > c.me.cap THEN AssignSwap(c.me, VectorCopy(c, rhs))
    ELSE AssignFrom(c, rhs)

\* ------------------------------------------------------------- the calls
NotBuilt == [alive |-> FALSE, data |-> 0, cap |-> 0, size |-> 0]

Built(w) == [alive |-> TRUE, data |-> w.data, cap |-> w.cap, size |-> w.size]

Ctx(x, k) ==
    [h |-> heap, me |-> [data |-> vec[x].data, cap |-> vec[x].cap, size |-> vec[x].size],
     k |-> k, ex |-> FALSE, r |-> 0, dn |-> 0, err |-> {}]

\* The elements of the Vector w in the heap h, as a sequence.
Elems(h, w) == [j \in 1..w.size |-> Slot(h, w.data, j - 1)]

\* The record of the call that has just ended: the operation, the Vector it
\* ran on (x) and its other Vector (y), its arguments (i: position, count or
\* capacity; v: value), whether it returned (ok) or threw (f: the fallible
\* step that threw), the position it returned (ret), how many element
\* destructors it ran (dn), and the Vectors and the heap as they were when it
\* was called.  rt: for an Erase that directly follows an Insert or Emplace
\* at the same position of the same Vector, the elements before that Insert.
Call(op, x, y, i, v, k, c, pos, rt) ==
    [op |-> op, x |-> x, y |-> y, i |-> i, v |-> v, ok |-> ~c.ex,
     f |-> IF c.ex THEN k ELSE 0, ret |-> IF pos /\ ~c.ex THEN c.r ELSE -1, dn |-> c.dn,
     vec |-> vec, heap |-> heap, rt |-> rt]

NoRt == <<Uninit>>

NoCall ==
    [op |-> "none", x |-> "a", y |-> "a", i |-> 0, v |-> 0, ok |-> TRUE, f |-> 0,
     ret |-> -1, dn |-> 0, vec |-> <<>>, heap |-> <<>>, rt |-> NoRt]

\* No call has ended that the caller has not yet looked at.
Idle == last.op = "none"

NoLog == <<Uninit>>

\* The k-th fallible step of a call throws; a call with fewer than k such
\* steps is the call with k = 0.
Fired(k, c) == k = 0 \/ c.ex

\* The slots owned by the Vectors other than x.
RECURSIVE CapSum(_)
CapSum(S) ==
    IF S = {} THEN 0
    ELSE LET y == CHOOSE z \in S : TRUE IN vec[y].cap + CapSum(S \ {y})

\* A call that asks for a buffer of n slots for x is taken only while the
\* Vectors then own at most MaxCap slots together.
Fits(x, n) == n + CapSum(Vectors \ {x}) <= MaxCap

\* The call op on Vector x ended in context c; pos: it returns a position.
Commit(x, k, c, op, y, i, v, pos, rt) ==
    /\ Fired(k, c)
    /\ heap' = c.h
    /\ vec' = [vec EXCEPT ![x] = Built(c.me)]
    /\ err' = err \cup c.err
    /\ last' = Call(op, x, y, i, v, k, c, pos, rt)
    /\ T' = T

Init ==
    /\ T \in Types
    /\ heap = [b \in Bufs |-> FreeBuf]
    /\ vec = [x \in Vectors |-> IF x = "a" THEN Built(EmptyVector) ELSE NotBuilt]
    /\ last = NoCall
    /\ log = [x \in Vectors |-> IF x = "a" THEN <<>> ELSE NoLog]
    /\ err = {}

\* Addresses are opaque to the caller: between calls the state is kept up to
\* a renaming of the buffers, the buffer of "a" first, then the buffer of "b",
\* then the others in increasing order.
RECURSIVE Sorted(_)
Sorted(S) == IF S = {} THEN <<>> ELSE <<Min(S)>> \o Sorted(S \ {Min(S)})

Range(q) == {q[j] : j \in DOMAIN q}

OwnedBufs ==
    LET da == vec["a"].data
        db == vec["b"].data
    IN (IF da # 0 THEN <<da>> ELSE <<>>) \o (IF db # 0 /\ db # da THEN <<db>> ELSE <<>>)

BufOrder == OwnedBufs \o Sorted(Bufs \ Range(OwnedBufs))

NewId(b) == IF b \in Bufs THEN CHOOSE j \in Bufs : BufOrder[j] = b ELSE b

\* The caller goes on after the call that has ended.
Continue ==
    /\ ~Idle
    /\ last' = NoCall
    /\ heap' = [j \in Bufs |-> heap[BufOrder[j]]]
    /\ vec' = [x \in Vectors |-> [vec[x] EXCEPT !.data = NewId(@)]]
    /\ UNCHANGED <<T, log, err>>

\* Vector() = default
VectorCall(x) ==
    /\ Idle /\ ~vec[x].alive
    /\ Commit(x, 0, Ctx(x, 0), "Vector", x, 0, 0, FALSE, NoRt)

\* A constructor that throws leaves no object.
Construct(x, k, c, op, y, i) ==
    /\ Fired(k, c)
    /\ heap' = c.h
    /\ vec' = [vec EXCEPT ![x] = IF c.ex THEN NotBuilt ELSE Built(c.r)]
    /\ err' = err \cup c.err
    /\ last' = Call(op, x, y, i, 0, k, c, FALSE, NoRt)
    /\ T' = T

DoVectorSized(x, n, k) ==
    /\ Idle /\ ~vec[x].alive /\ Fits(x, n)
    /\ Construct(x, k, VectorSized(Ctx(x, k), n), "VectorSized", x, n)
    /\ UNCHANGED log

DoVectorCopy(x, y, k) ==
    /\ Idle /\ ~vec[x].alive /\ vec[y].alive /\ T.copyable /\ Fits(x, vec[y].size)
    /\ Construct(x, k, VectorCopy(Ctx(x, k), vec[y]), "VectorCopy", y, 0)
    /\ UNCHANGED log

\* void Swap(Vector& other) noexcept
Swap(x, y) == [vec EXCEPT ![x] = vec[y], ![y] = vec[x]]

\* Mutant of MoveConstructed: the source keeps its members.
MoveConstructedShared(x, y) == [vec EXCEPT ![x] = vec[y]]

\* Vector(Vector&& other) noexcept { Swap(other); } on the members as their
\* default initializers leave them.
MoveConstructed(x, y) == [vec EXCEPT ![x] = vec[y], ![y] = Built(EmptyVector)]

DoVectorMove(x, y) ==
    /\ Idle /\ ~vec[x].alive /\ vec[y].alive
    /\ vec' = MoveConstructed(x, y)
    /\ last' = Call("VectorMove", x, y, 0, 0, 0, Ctx(x, 0), FALSE, NoRt)
    /\ UNCHANGED <<T, heap, log, err>>

\* The destructor of Vector x ended in context c and leaves no object.
Destroyed(x, c) ==
    /\ heap' = c.h
    /\ vec' = [vec EXCEPT ![x] = NotBuilt]
    /\ err' = err \cup c.err
    /\ last' = Call("Destroy", x, x, 0, 0, 0, c, FALSE, NoRt)
    /\ T' = T

\* ~Vector()
DestroyCall(x) ==
    /\ Idle /\ vec[x].alive
    /\ Destroyed(x, DestroyVector(Ctx(x, 0), vec[x]))

DoCopyAssignment(x, y, k) ==
    /\ Idle /\ vec[x].alive /\ vec[y].alive /\ T.copyable
    /\ Fits(x, IF vec[y].size > vec[x].cap THEN vec[y].size ELSE vec[x].cap)
    /\ Commit(x, k, CopyAssignment(Ctx(x, k), vec[y], x = y),
              "CopyAssignment", y, 0, 0, FALSE, NoRt)
    /\ UNCHANGED log

\* Vector& operator=(Vector&& rhs) noexcept
DoMoveAssignment(x, y) ==
    /\ Idle /\ vec[x].alive /\ vec[y].alive
    /\ vec' = IF x # y THEN Swap(x, y) ELSE vec
    /\ last' = Call("MoveAssignment", x, y, 0, 0, 0, Ctx(x, 0), FALSE, NoRt)
    /\ UNCHANGED <<T, heap, log, err>>

DoSwap(x, y) ==
    /\ Idle /\ vec[x].alive /\ vec[y].alive
    /\ vec' = Swap(x, y)
    /\ last' = Call("Swap", x, y, 0, 0, 0, Ctx(x, 0), FALSE, NoRt)
    /\ UNCHANGED <<T, heap, log, err>>

DoResize(x, n, k) ==
    /\ Idle /\ vec[x].alive /\ Fits(x, IF n > vec[x].cap THEN n ELSE vec[x].cap)
    /\ Commit(x, k, Resize(Ctx(x, k), n), "Resize", x, n, 0, FALSE, NoRt)
    /\ UNCHANGED log

DoReserve(x, n, k) ==
    /\ Idle /\ vec[x].alive /\ Fits(x, IF n > vec[x].cap THEN n ELSE vec[x].cap)
    /\ Commit(x, k, Reserve(Ctx(x, k), n), "Reserve", x, n, 0, FALSE, NoRt)
    /\ UNCHANGED log

\* A call that grows is taken only while the grown capacity fits.
CanGrow(x) == ~MustGrow(vec[x]) \/ Fits(x, GrownCapacity(vec[x].size))

EmplaceBackCall(x, v, k) ==
    /\ Idle /\ vec[x].alive /\ CanGrow(x)
    /\ Commit(x, k, EmplaceBack(Ctx(x, k), v), "EmplaceBack", x, vec[x].size, v, TRUE, NoRt)

PushBackCall(x, v, k) ==
    /\ Idle /\ vec[x].alive /\ CanGrow(x)
    /\ Commit(x, k, PushBack(Ctx(x, k), v), "PushBack", x, vec[x].size, v, TRUE, NoRt)

DoEmplace(x, i, v, k) ==
    /\ Idle /\ vec[x].alive /\ CanGrow(x) /\ i <= vec[x].size
    /\ Commit(x, k, Emplace(Ctx(x, k), i, v), "Emplace", x, i, v, TRUE, NoRt)
    /\ UNCHANGED log

DoInsert(x, i, v, k) ==
    /\ Idle /\ vec[x].alive /\ CanGrow(x) /\ i <= vec[x].size
    /\ Commit(x, k, Insert(Ctx(x, k), i, v), "Insert", x, i, v, TRUE, NoRt)
    /\ UNCHANGED log

\* The Erase may directly follow a successful Insert or Emplace at the same
\* position of the same Vector.
AfterInsert(x, i) ==
    /\ last.op \in {"Insert", "Emplace"} /\ last.ok /\ last.x = x /\ last.i = i

DoErase(x, i, k) ==
    /\ Idle \/ AfterInsert(x, i)
    /\ vec[x].alive /\ i < vec[x].size
    /\ Commit(x, k, Erase(Ctx(x, k), i), "Erase", x, i, 0, TRUE,
              IF AfterInsert(x, i) THEN Elems(last.heap, last.vec[x]) ELSE NoRt)
    /\ UNCHANGED log

DoPopBack(x) ==
    /\ Idle /\ vec[x].alive /\ vec[x].size > 0
    /\ Commit(x, 0, PopBack(Ctx(x, 0)), "PopBack", x, 0, 0, FALSE, NoRt)
    /\ UNCHANGED log

\* v.EmplaceBack(v[i]): the argument refers to an element of the Vector.
DoEmplaceBackElement(x, i, k) ==
    /\ Idle /\ vec[x].alive /\ CanGrow(x) /\ T.copyable /\ i < vec[x].size
    /\ Commit(x, k, EmplaceBack(Ctx(x, k), Ref(i)), "EmplaceBackElement", x,
              vec[x].size, Ref(i), TRUE, NoRt)
    /\ UNCHANGED log

\* v.Emplace(v.begin() + p, v[i])
DoEmplaceElement(x, p, i, k) ==
    /\ Idle /\ vec[x].alive /\ CanGrow(x) /\ T.copyable
    /\ p <= vec[x].size /\ i < vec[x].size
    /\ Commit(x, k, Emplace(Ctx(x, k), p, Ref(i)), "EmplaceElement", x, p, Ref(i), TRUE, NoRt)
    /\ UNCHANGED log

\* v[i] = value
DoAssignElement(x, i, v) ==
    /\ Idle /\ vec[x].alive /\ i < vec[x].size
    /\ Commit(x, 0, AssignElement(Ctx(x, 0), i, v), "AssignElement", x, i, v, FALSE, NoRt)
    /\ UNCHANGED log

DoVector(x) == VectorCall(x) /\ UNCHANGED log

DoDestroy(x) == DestroyCall(x) /\ UNCHANGED log

DoEmplaceBack(x, v, k) == EmplaceBackCall(x, v, k) /\ UNCHANGED log

DoPushBack(x, v, k) == PushBackCall(x, v, k) /\ UNCHANGED log

Next ==
    \/ Continue
    \/ \E x \in Vectors :
        \/ DoVector(x)
        \/ \E n \in 0..MaxCap : \E k \in 0..(n + 1) : DoVectorSized(x, n, k)
        \/ \E y \in Vectors \ {x} : \E k \in 0..(vec[y].size + 1) : DoVectorCopy(x, y, k)
        \/ \E y \in Vectors \ {x} : DoVectorMove(x, y)
        \/ DoDestroy(x)
        \/ \E y \in Vectors : \E k \in 0..(vec[y].size + 1) : DoCopyAssignment(x, y, k)
        \/ \E y \in Vectors : DoMoveAssignment(x, y)
        \/ \E y \in Vectors : DoSwap(x, y)
        \/ \E n \in 0..MaxCap : \E k \in 0..(n + 1) : DoResize(x, n, k)
        \/ \E n \in 0..MaxCap, k \in 0..(vec[x].size + 1) : DoReserve(x, n, k)
        \/ \E v \in Val, k \in 0..(vec[x].size + 2) : DoEmplaceBack(x, v, k)
        \/ \E v \in Val, k \in 0..(vec[x].size + 2) : DoPushBack(x, v, k)
        \/ \E i \in 0..vec[x].size, v \in Val, k \in 0..(vec[x].size + 3) :
              DoEmplace(x, i, v, k)
        \/ \E i \in 0..vec[x].size, v \in Val, k \in 0..(vec[x].size + 3) :
              DoInsert(x, i, v, k)
        \/ \E i \in 0..(vec[x].size - 1), k \in 0..vec[x].size : DoErase(x, i, k)
        \/ DoPopBack(x)
        \/ \E i \in 0..(vec[x].size - 1), k \in 0..(vec[x].size + 2) :
              DoEmplaceBackElement(x, i, k)
        \/ \E p \in 0..vec[x].size, i \in 0..(vec[x].size - 1), k \in 0..(vec[x].size + 3) :
              DoEmplaceElement(x, p, i, k)
        \/ \E i \in 0..(vec[x].size - 1), v \in Val : DoAssignElement(x, i, v)

Spec == Init /\ [][Next]_vars

\* ------------------------------------------------- a caller that appends
\* A caller that only builds Vectors empty, appends to them and destroys them.
\* log[x]: the values appended to x by the calls since Vector() built it,
\* NoLog once a call on x has thrown or x has been destroyed.
AppendVector(x) == VectorCall(x) /\ log' = [log EXCEPT ![x] = <<>>]

AppendDestroy(x) == DestroyCall(x) /\ log' = [log EXCEPT ![x] = NoLog]

Logged(x, v) ==
    log' = [log EXCEPT ![x] = IF last'.ok /\ log[x] # NoLog THEN Append(log[x], v) ELSE NoLog]

AppendEmplaceBack(x, v, k) == EmplaceBackCall(x, v, k) /\ Logged(x, v)

AppendPushBack(x, v, k) == PushBackCall(x, v, k) /\ Logged(x, v)

NextAppend ==
    \/ Continue
    \/ \E x \in Vectors :
        \/ AppendVector(x)
        \/ AppendDestroy(x)
        \/ \E v \in Val : \E k \in 0..(vec[x].size + 2) : AppendEmplaceBack(x, v, k)
        \/ \E v \in Val : \E k \in 0..(vec[x].size + 2) : AppendPushBack(x, v, k)

SpecAppend == Init /\ [][NextAppend]_vars

\* ------------------------------------------------------------- the claims
\* The Vector the last call ran on, before and after the call, and its
\* elements before and after.
Pre == last.vec[last.x]
Now == vec[last.x]
PreElems == Elems(last.heap, Pre)
NowElems == Elems(heap, Now)

Ended(ops) == last.op \in ops

Appends == {"EmplaceBack", "PushBack"}
Inserts == {"Emplace", "Insert"}

\* Spec section 4.2, relocation rule: an element type is relocated by copy
\* when its move construction may throw and it can be copied.
RelocatedByCopy == ~T.nothrowMove /\ T.copyable

InsertAt(s, i, v) == SubSeq(s, 1, i) \o <<v>> \o SubSeq(s, i + 1, Len(s))
RemoveAt(s, i) == SubSeq(s, 1, i) \o SubSeq(s, i + 2, Len(s))

Unchanged == vec = last.vec /\ heap = last.heap

\* 0 <= size <= capacity; the buffer has exactly capacity slots; slots
\* [0, size) hold live elements and slots [size, capacity) are uninitialized.
Structured(h, w) ==
    /\ 0 <= w.size /\ w.size <= w.cap
    /\ IF w.cap = 0 THEN w.data = 0
       ELSE /\ w.data \in Bufs
            /\ h[w.data].st = "live"
            /\ DOMAIN h[w.data].slots = 0..(w.cap - 1)
            /\ \A j \in 0..(w.cap - 1) : (j < w.size) <=> (h[w.data].slots[j] # Uninit)

\* C1: after every call, returned or thrown, every Vector has
\* 0 <= size <= capacity, live elements in slots [0, size) and uninitialized
\* slots in [size, capacity).
C1_StructuralInvariant ==
    \A x \in Vectors : vec[x].alive => Structured(heap, vec[x])

\* C1 witness: a mid-array Emplace without reallocation threw during the
\* shift, on a Vector that keeps elements and spare capacity.
C1_Witness ==
    /\ Ended(Inserts) /\ ~last.ok /\ last.f >= 3
    /\ ~MustGrow(Pre) /\ last.i < Pre.size
    /\ Now.size >= 2 /\ Now.size < Now.cap

Owners(b) == {x \in Vectors : vec[x].alive /\ vec[x].data = b}

\* C2: no element is constructed over a live element, no uninitialized slot
\* is destroyed, read or assigned to, no buffer is released twice or while it
\* holds a live element, and every allocated buffer (and so every live
\* element) belongs to exactly one existing Vector: nothing outlives the
\* Vector that built it, nothing is shared.
C2_Lifetime ==
    /\ err = {}
    /\ \A b \in Bufs : heap[b].st = "live" => Cardinality(Owners(b)) = 1
    /\ \A x \in Vectors : vec[x].alive /\ vec[x].data # 0 =>
            vec[x].data \in Bufs /\ heap[vec[x].data].st = "live"

\* C2 witness: a reallocating Emplace in the middle threw while copying the
\* suffix, after the new element and the prefix were placed in the new buffer.
C2_Witness ==
    /\ Ended(Inserts) /\ ~last.ok /\ MustGrow(Pre)
    /\ last.i >= 1 /\ last.i < Pre.size /\ last.f = last.i + 3

\* C3: a growing EmplaceBack/Emplace that throws in the allocation, in the
\* construction of the new element or, for a type relocated by copy, in a
\* copy of the relocation leaves the Vector (size, capacity, buffer) and the
\* whole heap (the elements; the new buffer released) as before the call.
C3_StrongGuaranteeGrowth ==
    (/\ Ended(Appends \cup Inserts) /\ ~last.ok /\ MustGrow(Pre)
     /\ last.f <= 2 \/ RelocatedByCopy)
        => Unchanged

\* C3 witness: such a call threw in the second copy of the relocation.
C3_Witness ==
    /\ Ended(Appends \cup Inserts) /\ ~last.ok /\ MustGrow(Pre)
    /\ RelocatedByCopy /\ last.f = 4 /\ Pre.size >= 2

\* C4: a successful Insert/Emplace at index i of s leaves
\* s[0..i) ++ [v] ++ s[i..n), size n + 1, and returns position i, for every
\* element type.
C4_InsertResult ==
    (Ended(Inserts) /\ last.ok) =>
        /\ NowElems = InsertAt(PreElems, last.i, last.v)
        /\ Now.size = Pre.size + 1
        /\ last.ret = last.i

\* C5: Insert(begin() + i, v) directly followed by Erase(begin() + i) leaves
\* the elements the Vector held before the Insert.
C5_InsertEraseRoundTrip ==
    (Ended({"Erase"}) /\ last.ok /\ last.rt # <<Uninit>>) => NowElems = last.rt

\* C6: from an empty Vector, successful EmplaceBack/PushBack calls of
\* v1..vN leave exactly <<v1, ..., vN>>, and each call returns the element at
\* index size - 1.
C6_AppendOrder ==
    /\ \A x \in Vectors : log[x] # NoLog =>
            /\ vec[x].alive
            /\ vec[x].size = Len(log[x])
            /\ Elems(heap, vec[x]) = log[x]
    /\ (Ended(Appends) /\ last.ok) => last.ret = Now.size - 1

\* C6 witness: three different-valued appends, through two reallocations,
\* then a fourth.
C6_Witness ==
    /\ Ended(Appends) /\ last.ok
    /\ Len(log[last.x]) = 4 /\ log[last.x][1] # log[last.x][2]
    /\ Now.cap = 4

Max2(m, n) == IF m > n THEN m ELSE n

\* C7: an EmplaceBack, PushBack, Emplace or Insert on a Vector with
\* size = capacity = s that returns leaves capacity max(1, 2 * s); with
\* size < capacity the call leaves capacity and buffer as they were.
C7_GrowthRule ==
    Ended(Appends \cup Inserts) =>
        IF Pre.size = Pre.cap
        THEN last.ok => Now.cap = Max2(1, 2 * Pre.size)
        ELSE Now.cap = Pre.cap /\ Now.data = Pre.data

\* C7 witness: a growth from a full Vector of two elements, and a call on a
\* Vector whose capacity was set apart from its size.
C7_Witness ==
    /\ Ended(Appends \cup Inserts) /\ last.ok
    /\ Pre.size = 2 /\ Pre.cap = 2 /\ Now.cap = 4

\* C8: Reserve(n) with n <= capacity changes nothing; a successful Reserve(n)
\* with n > capacity gives capacity n in another buffer, the old buffer
\* released, size and elements as before.
C8_ReserveFrame ==
    Ended({"Reserve"}) =>
        IF last.i <= Pre.cap THEN Unchanged /\ last.ok
        ELSE last.ok =>
                /\ Now.cap = last.i
                /\ Now.size = Pre.size
                /\ NowElems = PreElems
                /\ Now.data # Pre.data
                /\ Pre.data # 0 => heap[Pre.data].st = "free"

\* C8 witness: a successful Reserve that relocated two elements.
C8_Witness ==
    /\ Ended({"Reserve"}) /\ last.ok /\ last.i > Pre.cap /\ Pre.size >= 2
    /\ PreElems[1] # PreElems[2]

\* C9: a Reserve(n), n > capacity, that throws in the allocation or, for a
\* type relocated by copy, in a copy leaves the Vector and the whole heap as
\* before the call.
C9_ReserveStrongGuarantee ==
    (/\ Ended({"Reserve"}) /\ ~last.ok
     /\ last.f = 1 \/ RelocatedByCopy)
        => Unchanged /\ last.i > Pre.cap

\* C9 witness: a Reserve threw in its second copy.
C9_Witness ==
    /\ Ended({"Reserve"}) /\ ~last.ok /\ RelocatedByCopy /\ last.f = 3

\* C10: a successful Erase at index i of s leaves s[0..i) ++ s[i+1..n), size
\* n - 1, the capacity and the buffer as before, runs one destructor and
\* returns position i; PopBack leaves s[0..n-1) and the capacity as before.
C10_EraseResult ==
    /\ (Ended({"Erase"}) /\ last.ok) =>
            /\ NowElems = RemoveAt(PreElems, last.i)
            /\ Now.size = Pre.size - 1
            /\ Now.cap = Pre.cap /\ Now.data = Pre.data
            /\ last.dn = 1
            /\ last.ret = last.i
    /\ Ended({"PopBack"}) =>
            /\ NowElems = SubSeq(PreElems, 1, Pre.size - 1)
            /\ Now.size = Pre.size - 1
            /\ Now.cap = Pre.cap /\ Now.data = Pre.data

\* C10 witness: an Erase in front of two different elements.
C10_Witness ==
    /\ Ended({"Erase"}) /\ last.ok /\ Pre.size >= 3 /\ last.i = 0
    /\ PreElems[2] # PreElems[3] /\ PreElems[1] # PreElems[2]

\* C11: a successful Resize(n) of a Vector of size s: with n < s it destroys
\* exactly the s - n trailing elements and keeps the first n elements, the
\* capacity and the buffer; with n > s it keeps the first s elements, appends
\* n - s value-initialized elements and leaves size n and capacity
\* max(old capacity, n); with n = s it changes nothing.
C11_ResizeResult ==
    (Ended({"Resize"}) /\ last.ok) =>
        IF last.i < Pre.size
        THEN /\ Now.size = last.i
             /\ NowElems = SubSeq(PreElems, 1, last.i)
             /\ Now.cap = Pre.cap /\ Now.data = Pre.data
             /\ last.dn = Pre.size - last.i
        ELSE IF last.i > Pre.size
        THEN /\ Now.size = last.i
             /\ SubSeq(NowElems, 1, Pre.size) = PreElems
             /\ \A j \in (Pre.size + 1)..last.i : NowElems[j] = Default
             /\ Now.cap = Max2(Pre.cap, last.i)
        ELSE Unchanged /\ last.dn = 0

\* C11 witness: a Resize that grew a Vector of two different elements beyond
\* its capacity.
C11_Witness ==
    /\ Ended({"Resize"}) /\ last.ok /\ last.i > Pre.cap /\ Pre.size = 2
    /\ PreElems[1] # PreElems[2] /\ last.i >= 4

\* The other Vector of a call on one Vector.
OtherThan(x) == CHOOSE y \in Vectors : y # x

\* C12: after Vector b(std::move(a)), a has size 0, capacity 0 and no buffer,
\* b has a's prior buffer, size, capacity and elements, the heap is as it was
\* (no element constructed, copied, moved or destroyed), and in no state do
\* two Vectors own the same buffer.
C12_MoveConstruction ==
    /\ Ended({"VectorMove"}) =>
            /\ vec[last.y] = Built(EmptyVector)
            /\ Now = last.vec[last.y]
            /\ NowElems = Elems(last.heap, last.vec[last.y])
            /\ heap = last.heap
            /\ last.dn = 0 /\ last.ok
    /\ \A x \in Vectors :
            (vec[x].alive /\ vec[OtherThan(x)].alive /\ vec[x].data # 0)
                => vec[x].data # vec[OtherThan(x)].data

\* C12 witness: a move construction from a Vector of two different elements
\* and spare capacity.
C12_Witness ==
    /\ Ended({"VectorMove"}) /\ last.vec[last.y].size = 2 /\ last.vec[last.y].cap > 2
    /\ NowElems[1] # NowElems[2]

\* The calls that change the elements of the one Vector they run on.
Mutators ==
    Appends \cup Inserts \cup
    {"EmplaceBackElement", "EmplaceElement", "Erase", "PopBack", "Resize", "Reserve",
     "AssignElement", "Destroy"}

\* The Vector y and its buffer are as they were when the last call began.
Untouched(y) ==
    /\ vec[y] = last.vec[y]
    /\ vec[y].data # 0 => heap[vec[y].data] = last.heap[vec[y].data]

\* C13: after Vector b(a), b has size and capacity a.size, elements equal to
\* a's and a buffer of its own, and a is as it was; every later call that
\* changes one Vector (append, insert, erase, pop, resize, element
\* assignment, destruction), returned or thrown, leaves the size, capacity,
\* buffer and elements of the other Vector as they were.
C13_CopyIndependence ==
    /\ (Ended({"VectorCopy"}) /\ last.ok) =>
            /\ Now.size = last.vec[last.y].size
            /\ Now.cap = last.vec[last.y].size
            /\ NowElems = Elems(last.heap, last.vec[last.y])
            /\ Now.data # 0 => Now.data # vec[last.y].data
            /\ Untouched(last.y)
    /\ Ended(Mutators) => Untouched(OtherThan(last.x))

\* C13 witness: of two Vectors with the same two or more elements in two
\* buffers, one has just been changed.
C13_Witness ==
    /\ Ended(Mutators) /\ vec[OtherThan(last.x)].alive /\ Pre.size >= 2
    /\ Elems(heap, vec[OtherThan(last.x)]) = PreElems
    /\ vec[OtherThan(last.x)].cap = Pre.size
    /\ NowElems # PreElems

\* C14: a Vector(n) that returns has size n, capacity n and n
\* value-initialized elements; a Vector(n) or a copy construction that
\* throws in the allocation or in the construction of its k-th element has
\* destroyed exactly the k - 1 elements it had constructed and released its
\* buffer, so that the heap and the other Vector are as before, and leaves
\* no Vector.
C14_ConstructionUnwind ==
    /\ (Ended({"VectorSized"}) /\ last.ok) =>
            /\ Now.alive /\ Now.size = last.i /\ Now.cap = last.i
            /\ \A j \in 1..last.i : NowElems[j] = Default
    /\ (Ended({"VectorSized", "VectorCopy"}) /\ ~last.ok) =>
            /\ ~Now.alive
            /\ Unchanged
            /\ last.dn = Max2(0, last.f - 2)

\* C14 witness: a Vector(n) threw in its third element or later, and so with two
\* or more elements to destroy.
C14_Witness ==
    /\ Ended({"VectorSized"}) /\ ~last.ok /\ last.f >= 4 /\ last.dn >= 2

\* The right-hand side of the last call, as it was when the call began.
Rhs == last.vec[last.y]

\* C15: a = b that returns, a and b distinct, leaves a with b's size and
\* elements and b as it was; if b.size <= capacity(a) a keeps its buffer and
\* capacity and the elements beyond b.size are destroyed, otherwise a has a
\* new buffer of capacity b.size, its old elements destroyed and its old
\* buffer released.  a = a changes nothing.
C15_CopyAssignmentResult ==
    (Ended({"CopyAssignment"}) /\ last.ok) =>
        IF last.x = last.y THEN Unchanged /\ last.dn = 0
        ELSE /\ Now.size = Rhs.size
             /\ NowElems = Elems(last.heap, Rhs)
             /\ Untouched(last.y)
             /\ IF Rhs.size <= Pre.cap
                THEN /\ Now.data = Pre.data /\ Now.cap = Pre.cap
                     /\ last.dn = Max2(0, Pre.size - Rhs.size)
                ELSE /\ Now.cap = Rhs.size
                     /\ Now.data # Pre.data
                     /\ Pre.data # 0 => heap[Pre.data].st = "free"
                     /\ last.dn = Pre.size

\* C15 witness: an assignment into spare capacity that assigned one element
\* and copy-constructed another.
C15_Witness ==
    /\ Ended({"CopyAssignment"}) /\ last.ok /\ last.x # last.y
    /\ Pre.size = 1 /\ Rhs.size = 2 /\ Pre.cap >= 2
    /\ NowElems[1] # NowElems[2] /\ PreElems[1] # NowElems[1]

\* The context of a call on the Vector w in the heap h.
CtxAt(h, w, k) ==
    [h |-> h, me |-> [data |-> w.data, cap |-> w.cap, size |-> w.size],
     k |-> k, ex |-> FALSE, r |-> 0, dn |-> 0, err |-> {}]

\* EmplaceBack of the argument of the last call, run from the state in which
\* the last call began and with the same failure.
AsEmplaceBack == EmplaceBack(CtxAt(last.heap, Pre, last.f), last.v)

\* C16: an Emplace or Insert at end(), whether the Vector is full or not,
\* leaves the heap, the buffer, the size, the capacity and the elements that
\* EmplaceBack of the same argument leaves from the same state, returns the
\* position of the element EmplaceBack returns, and under the same failure
\* throws and leaves the same state as EmplaceBack.
C16_EmplaceAtEnd ==
    (Ended(Inserts \cup {"EmplaceElement"}) /\ last.i = Pre.size) =>
        /\ last.ok = ~AsEmplaceBack.ex
        /\ heap = AsEmplaceBack.h
        /\ Now = Built(AsEmplaceBack.me)
        /\ last.dn = AsEmplaceBack.dn
        /\ last.ok => last.ret = AsEmplaceBack.r /\ last.ret = Now.size - 1

\* C16 witness: an Emplace at end() of a full Vector of two elements threw
\* during the relocation.
C16_Witness ==
    /\ Ended(Inserts) /\ last.i = Pre.size /\ ~last.ok
    /\ MustGrow(Pre) /\ Pre.size = 2 /\ last.f = 4

\* The calls that add one element.
Grows == Appends \cup Inserts \cup {"EmplaceBackElement", "EmplaceElement"}

\* The value the argument of the last call had when the call began.
ArgBefore == IF IsRef(last.v) THEN PreElems[-last.v - 1] ELSE last.v

\* C17: in an EmplaceBack or Emplace on a full Vector the new element is
\* constructed before any old element is moved from, copied or destroyed (a
\* throw of that construction finds Vector and heap as they were, and an
\* argument that refers to an element of the Vector is read with its original
\* value); the old elements are destroyed and the buffers swapped only after
\* the whole relocation (after a throw the Vector has its old buffer with
\* every old element alive, only elements of the new buffer were destroyed);
\* the size is incremented last.
C17_GrowthOrder ==
    (Ended(Grows) /\ MustGrow(Pre)) =>
        /\ ~last.ok =>
                /\ Now = Pre
                /\ \A j \in 0..(Pre.size - 1) : Slot(heap, Pre.data, j) # Uninit
                /\ \A b \in Bufs : b # Pre.data => heap[b] = last.heap[b]
                /\ last.dn = Max2(0, last.f - 2)
                /\ last.f <= 2 => Unchanged
        /\ last.ok =>
                /\ NowElems = InsertAt(PreElems, last.i, ArgBefore)
                /\ Now.size = Pre.size + 1
                /\ last.dn = Pre.size
                /\ Pre.data # 0 => heap[Pre.data].st = "free"

\* C17 witness: v.EmplaceBack(v[i]) on a full Vector of two elements, of a
\* type whose move empties its source, with an element that has a value.
C17_Witness ==
    /\ Ended({"EmplaceBackElement"}) /\ last.ok /\ MustGrow(Pre) /\ Pre.size = 2
    /\ T.movedFrom /\ ArgBefore \in Val

\* C18: an Emplace or Insert before end() with size < capacity that throws
\* leaves the size, the capacity and the buffer as before the call and the
\* Vector structured (no live slot at or beyond size): a throw of the scratch
\* value or of the move construction of the last element into slot size runs
\* no destructor, a throw of the shift or of the assignment into the slot
\* destroys the one tail slot that was constructed.
C18_ShiftFailure ==
    (/\ Ended(Inserts \cup {"EmplaceElement"}) /\ ~last.ok
     /\ ~MustGrow(Pre) /\ last.i < Pre.size)
        => /\ Now = Pre
           /\ Structured(heap, Now)
           /\ \A b \in Bufs : b # Pre.data => heap[b] = last.heap[b]
           /\ last.dn = IF last.f <= 2 THEN 0 ELSE 1
           /\ last.f <= 2 => Unchanged

\* C18 witness: the shift threw after it had moved an element, and the
\* elements are not those from before the call.
C18_Witness ==
    /\ Ended(Inserts) /\ ~last.ok /\ ~MustGrow(Pre) /\ last.i < Pre.size
    /\ last.f >= 4 /\ Pre.size >= 2 /\ NowElems # PreElems

\* The number of slots of the last copy assignment that were assigned before
\* it threw: std::copy assigns the common prefix, one fallible step each.
AssignedSlots ==
    IF last.f <= Min({Pre.size, Rhs.size}) THEN last.f - 1 ELSE Min({Pre.size, Rhs.size})

\* C19: a = b that throws with b.size > capacity(a) leaves a and the heap as
\* before the call.  If it throws with b.size <= capacity(a), a keeps its
\* buffer, capacity and size, the slots assigned before the throw hold b's
\* values and the others their old values, every element constructed beyond
\* the old size has been destroyed again, and b is as it was.
C19_CopyAssignmentFailure ==
    (Ended({"CopyAssignment"}) /\ ~last.ok) =>
        IF Rhs.size > Pre.cap THEN Unchanged
        ELSE /\ Now = Pre
             /\ Structured(heap, Now)
             /\ Untouched(last.y)
             /\ \A j \in 1..Pre.size :
                    NowElems[j] = IF j <= AssignedSlots
                                  THEN Elems(last.heap, Rhs)[j] ELSE PreElems[j]
             /\ last.dn = last.f - 1 - AssignedSlots

\* C19 witness: an assignment into the buffer threw at its second element,
\* after it had changed the first.
C19_Witness ==
    /\ Ended({"CopyAssignment"}) /\ ~last.ok /\ Rhs.size <= Pre.cap
    /\ Pre.size >= 2 /\ Rhs.size >= 2 /\ last.f = 2
    /\ NowElems[1] # PreElems[1]

\* The calls that exchange the buffers of two Vectors.
Exchanges == {"VectorMove", "MoveAssignment", "Swap"}

\* C20: no call of EmplaceBack, PushBack, Emplace, Insert, Erase, PopBack,
\* Reserve, Resize or copy assignment, returned or thrown, leaves its Vector
\* a smaller capacity than it had; the capacity of a Vector gets smaller only
\* in a move construction, move assignment or Swap it takes part in.
C20_CapacityNeverShrinks ==
    ~Idle =>
        /\ Ended(Grows \cup {"Erase", "PopBack", "Reserve", "Resize", "CopyAssignment"})
                => Now.alive /\ Now.cap >= Pre.cap
        /\ \A y \in Vectors :
                (vec[y].alive /\ last.vec[y].alive /\ vec[y].cap < last.vec[y].cap)
                    => Ended(Exchanges) /\ y \in {last.x, last.y}

\* C20 witness: a copy assignment from a Vector with fewer elements and a
\* smaller capacity, which left two elements fewer.
C20_Witness ==
    /\ Ended({"CopyAssignment"}) /\ last.ok /\ last.x # last.y
    /\ Rhs.cap < Pre.cap /\ Rhs.size + 2 <= Pre.size

====
